---- MODULE Spec2Model ----
(***************************************************************************)
(* Model of pyModbusTCPServer/server.py: the DataBank (two lock-protected  *)
(* spaces of 65536 cells) and the ModbusService.handle loop run by one     *)
(* thread per accepted connection.                                         *)
(*                                                                         *)
(* Bytes are naturals 0..255, byte strings are sequences of bytes.  The    *)
(* bit space is the set of addresses holding True, the word space the set  *)
(* of <<address, value>> pairs with value # 0; every other cell holds the  *)
(* initial value, so both are exact images of the 65536-cell lists.        *)
(*                                                                         *)
(* A slice copy inside a DataBank method is taken in two steps (the first  *)
(* cell, then the remaining cells): the coarsest split under which a torn  *)
(* range is observable if the lock did not exclude the other threads.      *)
(***************************************************************************)
EXTENDS Integers, Sequences, FiniteSets, TLC

\* ---------------------------------------------------------------- bounds
NumSessions == 2        \* threads (connections) of the concurrent scenario
MaxFrames == 2          \* frames (or direct DataBank calls) per thread

\* ------------------------------------------------------ source constants
READ_COILS == 1
READ_DISCRETE_INPUTS == 2
READ_HOLDING_REGISTERS == 3
READ_INPUT_REGISTERS == 4
WRITE_SINGLE_COIL == 5
WRITE_SINGLE_REGISTER == 6
WRITE_MULTIPLE_COILS == 15
WRITE_MULTIPLE_REGISTERS == 16
EXP_NONE == 0
EXP_ILLEGAL_FUNCTION == 1
EXP_DATA_ADDRESS == 2
EXP_DATA_VALUE == 3
SpaceLen == 65536       \* len(cls.bits) = len(cls.words) = 0x10000

Sessions == 1..NumSessions

\* ------------------------------------------------------------ struct, bits
\* struct.unpack('>H', b[k-1:k+1]) with k the 1-based index of the high byte
U16(b, k) == b[k] * 256 + b[k + 1]

\* struct.pack('>H', x)
Pack16(x) == <<x \div 256, x % 256>>

Pow2(k) == CASE k = 0 -> 1 [] k = 1 -> 2 [] k = 2 -> 4 [] k = 3 -> 8
             [] k = 4 -> 16 [] k = 5 -> 32 [] k = 6 -> 64 [] k = 7 -> 128

\* test_bit(value, offset)
test_bit(value, offset) == ((value \div Pow2(offset)) % 2) = 1

\* set_bit(value, offset)
set_bit(value, offset) ==
  IF test_bit(value, offset) THEN value ELSE value + Pow2(offset)

\* b_count / 8 compared with byte_count (line 182): true division under
\* Python 3, floor division under Python 2
ByteCountEnough(interp, byte_count, b_count) ==
  IF interp = 3 THEN byte_count * 8 >= b_count
                ELSE byte_count >= b_count \div 8


Min(a, b) == IF a < b THEN a ELSE b

\* ---------------------------------------------------------------- DataBank
\* one method call in progress: name, arguments, cells copied so far (done),
\* the list read so far (out) and the value returned (ret)
NoOp ==
  [name |-> "", address |-> 0, number |-> 0, arg |-> <<>>,
   out |-> <<>>, done |-> 0, ret |-> ""]

Call(name, address, number, arg) ==
  [name |-> name, address |-> address, number |-> number, arg |-> arg,
   out |-> <<>>, done |-> 0, ret |-> "pending"]

OnBits(op) == op.name \in {"get_bits", "set_bits"}

IsGet(op) == op.name \in {"get_bits", "get_words"}

\* cls.words[a] on the sparse image
WordAt(w, a) ==
  IF \E p \in w : p[1] = a THEN (CHOOSE p \in w : p[1] = a)[2] ELSE 0

\* the range test with the end of the space off by one
InRangeOffByOne(address, number) ==
  (address >= 0) /\ (address + number <= SpaceLen + 1)

\* the range test refusing a range that ends at the last cell
InRangeStrict(address, number) ==
  (address >= 0) /\ (address + number < SpaceLen)

\* (address >= 0) and (address + number <= len(cls.bits))
InRange(address, number) == (address >= 0) /\ (address + number <= SpaceLen)

\* the slice of bits read one cell too far
SliceBitsShifted(b, address, lo, hi) ==
  [k \in 1..(hi - lo + 1) |-> (address + lo + k - 1) \in b]

\* cells lo..hi (1-based inside the range) of cls.bits[address: number + address]
SliceBits(b, address, lo, hi) ==
  [k \in 1..(hi - lo + 1) |-> (address + lo + k - 2) \in b]

\* the slice read one cell too far
SliceWordsShifted(w, address, lo, hi) ==
  [k \in 1..(hi - lo + 1) |-> WordAt(w, address + lo + k - 1)]

\* cells lo..hi of cls.words[address: number + address]
SliceWords(w, address, lo, hi) ==
  [k \in 1..(hi - lo + 1) |-> WordAt(w, address + lo + k - 2)]

\* the slice of bits written one cell too far
StoreBitsShifted(b, address, lo, hi, arg) ==
  (b \ {address + j : j \in lo..hi})
    \cup {address + j : j \in {i \in lo..hi : arg[i]}}

\* cells lo..hi of cls.bits[address: address + len(bit_list)] = bit_list
StoreBits(b, address, lo, hi, arg) ==
  (b \ {address + j - 1 : j \in lo..hi})
    \cup {address + j - 1 : j \in {i \in lo..hi : arg[i]}}

\* the slice written one cell too far
StoreWordsShifted(w, address, lo, hi, arg) ==
  {p \in w : ~(p[1] \in (address + lo)..(address + hi))}
    \cup {<<address + j, arg[j]>> : j \in {i \in lo..hi : arg[i] # 0}}

\* cells lo..hi of cls.words[address: address + len(word_list)] = word_list
StoreWords(w, address, lo, hi, arg) ==
  {p \in w : ~(p[1] \in (address + lo - 1)..(address + hi - 1))}
    \cup {<<address + j - 1, arg[j]>> : j \in {i \in lo..hi : arg[i] # 0}}

\* a lock that excludes nobody
CanAcquireAlways(holder) == TRUE

\* the lock can be taken: Lock.acquire() of `with cls.bits_lock:`
CanAcquire(holder) == holder = 0

\* a lock left held when the method returns None
LockAfterLeak(op, s) == IF op.ret = "None" THEN s ELSE 0

\* holder of the lock once the with block is left, by either return
LockAfter(op, s) == 0

\* last cell of the next copy step: the first cell, then all the others
NextHi(op) == IF op.done = 0 THEN Min(1, op.number) ELSE op.number

\* one step of the body of a DataBank method, run with the lock held
DbStep(op, b, w) ==
  IF op.done = 0 /\ ~InRange(op.address, op.number)
  THEN [op |-> [op EXCEPT !.ret = "None"], bits |-> b, words |-> w]
  ELSE
    LET lo == op.done + 1
        hi == NextHi(op)
        fin == hi = op.number
        got == CASE op.name = "get_bits" -> SliceBits(b, op.address, lo, hi)
                 [] op.name = "get_words" -> SliceWords(w, op.address, lo, hi)
                 [] OTHER -> <<>>
    IN [op |-> [op EXCEPT !.done = hi,
                          !.out = op.out \o got,
                          !.ret = IF ~fin THEN "pending"
                                  ELSE IF IsGet(op) THEN "list" ELSE "True"],
        bits |-> IF op.name = "set_bits"
                 THEN StoreBits(b, op.address, lo, hi, op.arg) ELSE b,
        words |-> IF op.name = "set_words"
                  THEN StoreWords(w, op.address, lo, hi, op.arg) ELSE w]

\* truth value of what a method returned (`if bits_l:`, `if DataBank.set_bits(..)`)
Truthy(op) ==
  \/ op.ret = "True"
  \/ op.ret = "list" /\ op.out # <<>>

\* ------------------------------------------------------- ModbusService.handle
\* header fields: struct.unpack('>HHHB', rx_head)
HdTrId(h) == U16(h, 1)
HdPrId(h) == U16(h, 3)
HdLength(h) == U16(h, 5)
HdUnitId(h) == h[7]

\* not (rx_head and len(rx_head) == 7)
HeadShort(h) == ~(h # <<>> /\ Len(h) = 7)

\* the header test with the upper limit of the length off by one
HeadConsistentUpTo256(h) ==
  (HdPrId(h) = 0) /\ (2 < HdLength(h)) /\ (HdLength(h) <= 256)

\* (rx_hd_pr_id == 0) and (2 < rx_hd_length < 256)
HeadConsistent(h) == (HdPrId(h) = 0) /\ (2 < HdLength(h)) /\ (HdLength(h) < 256)

\* not (rx_body and (len(rx_body) == rx_hd_length - 1))
BodyShort(h, body) == ~(body # <<>> /\ Len(body) = HdLength(h) - 1)

\* rx_bd_fc > 0x7F
FcInconsistent(body) == body[1] > 127

\* the quantity tests with every upper limit off by one
QuantityOkLoose(fc, count) ==
  CASE fc \in {READ_COILS, READ_DISCRETE_INPUTS} -> 1 <= count /\ count <= 2001
    [] fc \in {READ_HOLDING_REGISTERS, READ_INPUT_REGISTERS} ->
         1 <= count /\ count <= 126
    [] fc = WRITE_MULTIPLE_COILS -> 1 <= count /\ count <= 1969
    [] fc = WRITE_MULTIPLE_REGISTERS -> 1 <= count /\ count <= 124
    [] OTHER -> TRUE

\* the quantity tests without their upper limits
QuantityOkNoUpper(fc, count) == 1 <= count

\* the quantity tests of lines 125, 150, 182 and 202
QuantityOk(fc, count) ==
  CASE fc \in {READ_COILS, READ_DISCRETE_INPUTS} -> 1 <= count /\ count <= 2000
    [] fc \in {READ_HOLDING_REGISTERS, READ_INPUT_REGISTERS} ->
         1 <= count /\ count <= 125
    [] fc = WRITE_MULTIPLE_COILS -> 1 <= count /\ count <= 1968
    [] fc = WRITE_MULTIPLE_REGISTERS -> 1 <= count /\ count <= 123
    [] OTHER -> TRUE

\* the bits taken from each data byte most significant bit first
UnpackBitsMsbFirst(body, b_count) ==
  [i \in 1..b_count |-> test_bit(body[((i - 1) \div 8) + 7], 7 - ((i - 1) % 8))]

\* bits_l of lines 184-189
UnpackBits(body, b_count) ==
  [i \in 1..b_count |-> test_bit(body[((i - 1) \div 8) + 7], (i - 1) % 8)]

\* words_l of lines 204-208
UnpackWords(body, w_count) == [i \in 1..w_count |-> U16(body, 2 * (i - 1) + 7)]

\* every nonzero value taken as on
CoilValueNonZero(b_value) == b_value # 0

\* f_b_value = bool(b_value == 0xFF00) of line 164
CoilValue(b_value) == b_value = 65280

Raise == [kind |-> "raise", exp |-> EXP_NONE, op |-> NoOp]
Except(code) == [kind |-> "reply", exp |-> code, op |-> NoOp]
Invoke(op) == [kind |-> "call", exp |-> EXP_NONE, op |-> op]

\* lines 119-218 up to the DataBank call: what the handler does with a body
\* whose function code is <= 0x7F.  "raise" is struct.error leaving handle():
\* unpack('>HH', rx_body[1:]) needs exactly 4 bytes, unpack('>HHB',
\* rx_body[1:6]) 5 bytes, unpack('B', ..) 1 byte and unpack('>H', ..) 2 bytes.
Dispatch(interp, body) ==
  LET fc == body[1]
      n == Len(body)
  IN
  CASE fc \in {READ_COILS, READ_DISCRETE_INPUTS} ->
         IF n # 5 THEN Raise
         ELSE IF QuantityOk(fc, U16(body, 4))
              THEN Invoke(Call("get_bits", U16(body, 2), U16(body, 4), <<>>))
              ELSE Except(EXP_DATA_VALUE)
    [] fc \in {READ_HOLDING_REGISTERS, READ_INPUT_REGISTERS} ->
         IF n # 5 THEN Raise
         ELSE IF QuantityOk(fc, U16(body, 4))
              THEN Invoke(Call("get_words", U16(body, 2), U16(body, 4), <<>>))
              ELSE Except(EXP_DATA_VALUE)
    [] fc = WRITE_SINGLE_COIL ->
         IF n # 5 THEN Raise
         ELSE Invoke(Call("set_bits", U16(body, 2), 1,
                          <<CoilValue(U16(body, 4))>>))
    [] fc = WRITE_SINGLE_REGISTER ->
         IF n # 5 THEN Raise
         ELSE Invoke(Call("set_words", U16(body, 2), 1, <<U16(body, 4)>>))
    [] fc = WRITE_MULTIPLE_COILS ->
         IF n < 6 THEN Raise
         ELSE LET b_count == U16(body, 4)
                  byte_count == body[6]
              IN IF QuantityOk(fc, b_count)
                    /\ ByteCountEnough(interp, byte_count, b_count)
                 THEN IF ((b_count - 1) \div 8) + 6 >= n THEN Raise
                      ELSE Invoke(Call("set_bits", U16(body, 2), b_count,
                                       UnpackBits(body, b_count)))
                 ELSE Except(EXP_DATA_VALUE)
    [] fc = WRITE_MULTIPLE_REGISTERS ->
         IF n < 6 THEN Raise
         ELSE LET w_count == U16(body, 4)
                  byte_count == body[6]
              IN IF QuantityOk(fc, w_count) /\ byte_count = w_count * 2
                 THEN IF 2 * (w_count - 1) + 8 > n THEN Raise
                      ELSE Invoke(Call("set_words", U16(body, 2), w_count,
                                       UnpackWords(body, w_count)))
                 ELSE Except(EXP_DATA_VALUE)
    [] OTHER -> Except(EXP_ILLEGAL_FUNCTION)

\* one byte of bytes_l (lines 131-136): byte j (0-based) of the packed bits
RECURSIVE PackByte(_, _, _, _)
PackByte(bits_l, j, k, acc) ==
  IF k = 8 THEN acc
  ELSE PackByte(bits_l, j, k + 1,
                IF 8 * j + k < Len(bits_l) /\ bits_l[8 * j + k + 1]
                THEN set_bit(acc, k) ELSE acc)

\* the bytes list without the byte of the last, incomplete group of 8 bits
PackBitsFloor(bits_l) ==
  [j \in 1..(Len(bits_l) \div 8) |-> PackByte(bits_l, j - 1, 0, 0)]

\* bytes_l of lines 129-136
PackBits(bits_l) ==
  LET b_count == Len(bits_l)
      b_size == (b_count \div 8) + (IF b_count % 8 # 0 THEN 1 ELSE 0)
  IN [j \in 1..b_size |-> PackByte(bits_l, j - 1, 0, 0)]

\* the words of lines 155-156, each as struct.pack('>H', word)
PackWords(words_l) ==
  [j \in 1..(2 * Len(words_l)) |->
     IF j % 2 = 1 THEN Pack16(words_l[(j + 1) \div 2])[1]
                  ELSE Pack16(words_l[j \div 2])[2]]

\* the exception body without the flag on the function code
ExceptBodyNoFlag(fc, code) == <<fc, code>>

\* struct.pack('BB', rx_bd_fc + 0x80, exp_status) of line 222
ExceptBody(fc, code) == <<fc + 128, code>>

\* the success body built after the DataBank method returned (lines 138-141,
\* 154-156, 167, 175, 193, 212)
OkBody(body, op) ==
  LET fc == body[1] IN
  CASE fc \in {READ_COILS, READ_DISCRETE_INPUTS} ->
         <<fc, Len(PackBits(op.out))>> \o PackBits(op.out)
    [] fc \in {READ_HOLDING_REGISTERS, READ_INPUT_REGISTERS} ->
         <<fc, U16(body, 4) * 2>> \o PackWords(op.out)
    [] OTHER -> <<fc>> \o Pack16(U16(body, 2)) \o Pack16(U16(body, 4))

\* exp_status once the DataBank method has returned
ExpAfterCall(op) == IF Truthy(op) THEN EXP_NONE ELSE EXP_DATA_ADDRESS

\* tx_body as it stands at line 224
TxBody(body, op) ==
  IF ExpAfterCall(op) # EXP_NONE THEN ExceptBody(body[1], ExpAfterCall(op))
  ELSE OkBody(body, op)

\* the header with the length of the PDU alone
TxHeadLenOfBody(h, body) ==
  Pack16(HdTrId(h)) \o Pack16(HdPrId(h)) \o Pack16(Len(body)) \o <<HdUnitId(h)>>

\* the header with the transaction id not echoed
TxHeadNoTrId(h, body) ==
  Pack16(0) \o Pack16(HdPrId(h)) \o Pack16(Len(body) + 1) \o <<HdUnitId(h)>>

\* struct.pack('>HHHB', rx_hd_tr_id, rx_hd_pr_id, len(tx_body) + 1, rx_hd_unit_id)
TxHead(h, body) ==
  Pack16(HdTrId(h)) \o Pack16(HdPrId(h)) \o Pack16(Len(body) + 1)
    \o <<HdUnitId(h)>>

\* ------------------------------------------------------------------ peers
\* What the other end of a socket sends (the bytes recv() returns), and what
\* an application thread passes to the DataBank class methods.
BE16(x) == <<x \div 256, x % 256>>

Zeros(n) == [i \in 1..n |-> 0]

\* PDU of FC 0x01..0x06: function code, address, count or value
ReqRW(fc, addr, x) == <<fc>> \o BE16(addr) \o BE16(x)

\* PDU of FC 0x0F, 0x10: function code, address, count, byte count, data
ReqWM(fc, addr, count, bc, data) ==
  <<fc>> \o BE16(addr) \o BE16(count) \o <<bc>> \o data

MbapHead(tr, pr, length, unit) ==
  BE16(tr) \o BE16(pr) \o BE16(length) \o <<unit>>

\* requests of client s of the concurrent scenario: reads and writes of the
\* same two registers and of the same two coils, each client writing values
\* of its own; the odd clients write the coils, the even ones read them
ClientBodies(s) ==
  { ReqWM(16, 10, 2, 4, <<0, s, 0, s + 16>>), ReqRW(3, 10, 2) }
  \cup (IF s % 2 = 1 THEN {ReqWM(15, 0, 2, 1, <<s>>)} ELSE {ReqRW(1, 0, 2)})

\* requests of prober s of the lock scenario: on each space a call that
\* fails the range test and a write that succeeds
ProberBodies(s) ==
  { ReqRW(3, 65535, 2), ReqRW(6, 20, s),
    ReqRW(1, 65535, 2), ReqRW(5, 20, IF s % 2 = 1 THEN 65280 ELSE 0) }

\* k-th write-single-register request of writer s: the addresses of all the
\* writers are pairwise distinct
WAddr(s, k) == 16 * s + k
WVal(s, k) == 256 * s + k
WriterBody(s, k) == ReqRW(6, WAddr(s, k), WVal(s, k))

\* requests of an arbitrary peer
FuzzBodies ==
  { ReqRW(fc, ac[1], ac[2]) :
      fc \in {1, 2},
      ac \in {<<0, 3>>, <<0, 10>>, <<65535, 1>>, <<65535, 2>>,
              <<0, 0>>, <<0, 2001>>, <<65535, 2001>>, <<65535, 65535>>,
              <<0, 9>>, <<8, 16>>, <<7, 1>>, <<0, 2000>>} }
  \cup
  { ReqRW(fc, ac[1], ac[2]) :
      fc \in {3, 4},
      ac \in {<<10, 1>>, <<10, 2>>, <<65535, 1>>, <<65535, 2>>,
              <<0, 0>>, <<0, 126>>, <<65535, 126>>, <<65535, 65535>>,
              <<0, 125>>} }
  \cup
  { ReqRW(5, 7, 65280), ReqRW(5, 7, 0), ReqRW(5, 7, 1), ReqRW(5, 65535, 65280),
    ReqRW(5, 7, 255), ReqRW(5, 7, 65535),
    ReqRW(6, 10, 4660), ReqRW(6, 10, 0), ReqRW(6, 65535, 65535) }
  \cup
  { ReqWM(15, 0, 3, 1, <<5>>), ReqWM(15, 65534, 3, 1, <<7>>),
    ReqWM(15, 65534, 2, 1, <<3>>),
    ReqWM(15, 0, 9, 2, <<255, 1>>), ReqWM(15, 0, 9, 1, <<255>>),
    ReqWM(15, 0, 9, 1, <<255, 1>>), ReqWM(15, 0, 3, 1, <<255>>),
    ReqWM(15, 8, 16, 2, <<165, 90>>),
    ReqWM(15, 0, 0, 0, <<>>), ReqWM(15, 0, 1969, 247, Zeros(247)),
    ReqWM(15, 65535, 1969, 247, Zeros(247)) }
  \cup
  { ReqWM(16, 10, 2, 4, <<18, 52, 0, 1>>), ReqWM(16, 65535, 2, 4, <<0, 1, 0, 2>>),
    ReqWM(16, 65535, 1, 2, <<171, 205>>),
    ReqWM(16, 10, 2, 3, <<1, 2, 3>>), ReqWM(16, 10, 1, 4, <<0, 1, 0, 2>>),
    ReqWM(16, 10, 0, 0, <<>>), ReqWM(16, 10, 124, 248, Zeros(248)),
    ReqWM(16, 65535, 124, 248, Zeros(248)) }
  \cup
  { <<66, 0, 0, 0, 1>>, <<7, 0>>, <<0, 0, 0>>,          \* unknown function codes
    <<127, 1, 2, 3>>,
    <<129, 0, 0, 0, 1>>, <<255, 0>>,                     \* high bit set
    <<3, 0, 0>>, <<1, 0, 0, 0, 3, 0>>, <<6, 0>>,        \* other lengths
    <<15, 0, 0, 0, 1>>, <<16, 0, 10, 0, 2, 4, 18>>,
    <<15, 0, 0, 0, 9, 2, 255>> }

\* (transaction id, unit id) of the frames of an arbitrary peer
FuzzIds == {<<1, 255>>, <<258, 1>>}

\* what recv(7) may return to a thread of this kind that accepted k frames
HeadInputs(kind, s, k) ==
  IF k >= MaxFrames THEN {<<>>}
  ELSE CASE kind = "client" ->
              {<<>>} \cup {MbapHead(k + 1, 0, Len(b) + 1, 1) : b \in ClientBodies(s)}
         [] kind = "writer" ->
              {<<>>, MbapHead(k + 1, 0, Len(WriterBody(s, k + 1)) + 1, s)}
         [] kind = "prober" -> {<<>>, MbapHead(k + 1, 0, 6, s)}
         [] OTHER ->
              {<<>>, <<0, 1, 0, 0, 0, 6>>,
               MbapHead(1, 1, 6, 1), MbapHead(1, 0, 2, 1), MbapHead(1, 0, 256, 1),
               MbapHead(1, 0, 0, 1), MbapHead(1, 0, 65535, 1)}
              \cup {MbapHead(id[1], 0, Len(b) + 1, id[2]) :
                      id \in FuzzIds, b \in FuzzBodies}

\* what recv(rx_hd_length - 1) may return after header h, the k-th accepted:
\* the whole PDU, nothing, or (arbitrary peer) its first byte only
BodyInputs(kind, s, k, h) ==
  CASE kind = "client" ->
         {<<>>} \cup {b \in ClientBodies(s) : Len(b) = HdLength(h) - 1}
    [] kind = "writer" -> {<<>>, WriterBody(s, k)}
    [] kind = "prober" -> {<<>>} \cup ProberBodies(s)
    [] OTHER ->
         LET full == {b \in FuzzBodies : Len(b) = HdLength(h) - 1}
         IN full \cup {<<>>} \cup {<<b[1]>> : b \in full}

\* arguments of the direct calls of an application thread
AppNames == {"get_bits", "get_words", "set_bits", "set_words"}
AppAddresses == {-1, 0, 65534, 65535}
AppLists(name) ==
  CASE name = "set_bits" -> {<<TRUE>>, <<TRUE, FALSE>>, <<FALSE, TRUE>>}
    [] name = "set_words" -> {<<4660>>, <<1, 2>>, <<0, 65535>>}
    [] OTHER -> {<<>>}
AppNumbers(name) == IF name \in {"get_bits", "get_words"} THEN {1, 2} ELSE {0}

\* ------------------------------------------------------------------ state
VARIABLES
  py,          \* major version of the interpreter running the server (2 or 3)
  peer,        \* per thread: kind of connection peer, or "app", or "none"
  pc,          \* per thread: where it stands
  rx_head,     \* per thread: what recv(7) returned
  rx_body,     \* per thread: what recv(rx_hd_length - 1) returned
  exp_status,  \* per thread: exp_status
  tx_body,     \* per thread: tx_body at line 224
  nframes,     \* per thread: headers accepted (or direct calls made)
  nsent,       \* per thread: frames sent
  cause,       \* per thread: why the handler ended
  dbop,        \* per thread: the DataBank call in progress or just returned
  bits_lock,   \* DataBank.bits_lock: 0 or the thread holding it
  words_lock,  \* DataBank.words_lock
  bits,        \* DataBank.bits: the addresses holding True
  words,       \* DataBank.words: <<address, value>> with value # 0
  prev_body,   \* per thread: PDU of the write request answered just before
  prev_op      \* per thread: the direct call made just before

vars ==
  <<py, peer, pc, rx_head, rx_body, exp_status, tx_body, nframes, nsent,
    cause, dbop, bits_lock, words_lock, bits, words, prev_body, prev_op>>

InitCommon ==
  /\ py \in {2, 3}
  /\ rx_head = [s \in Sessions |-> <<>>]
  /\ rx_body = [s \in Sessions |-> <<>>]
  /\ exp_status = [s \in Sessions |-> EXP_NONE]
  /\ tx_body = [s \in Sessions |-> <<>>]
  /\ nframes = [s \in Sessions |-> 0]
  /\ nsent = [s \in Sessions |-> 0]
  /\ cause = [s \in Sessions |-> ""]
  /\ dbop = [s \in Sessions |-> NoOp]
  /\ bits_lock = 0
  /\ words_lock = 0
  /\ bits = {}
  /\ words = {}
  /\ prev_body = [s \in Sessions |-> <<>>]
  /\ prev_op = [s \in Sessions |-> NoOp]

\* one thread: the handler of one connection with an arbitrary peer, or an
\* application thread calling the DataBank
Init ==
  /\ InitCommon
  /\ \E k \in {"fuzz", "app"} :
       /\ peer = [s \in Sessions |-> IF s = 1 THEN k ELSE "none"]
       /\ pc = [s \in Sessions |->
                  IF s # 1 THEN "Idle" ELSE IF k = "app" THEN "App" ELSE "ReadHeader"]

\* one handler thread per connection, all running concurrently; the requests
\* of this scenario are handled alike by both interpreters
InitConc ==
  /\ InitCommon
  /\ py = 3
  /\ \E k \in {"client", "writer"} : peer = [s \in Sessions |-> k]
  /\ pc = [s \in Sessions |-> "ReadHeader"]

\* one handler thread per connection, each peer probing both locks on the
\* success and on the failure path
InitLock ==
  /\ InitCommon
  /\ py = 3
  /\ peer = [s \in Sessions |-> "prober"]
  /\ pc = [s \in Sessions |-> "ReadHeader"]

\* ---------------------------------------------------------------- actions
\* lines 99-108: recv(7), the two header tests
RecvHeader(s) ==
  /\ pc[s] = "ReadHeader"
  /\ \E h \in HeadInputs(peer[s], s, nframes[s]) :
       /\ rx_head' = [rx_head EXCEPT ![s] = h]
       /\ IF HeadShort(h)
          THEN /\ pc' = [pc EXCEPT ![s] = "Closed"]
               /\ cause' = [cause EXCEPT ![s] = IF h = <<>> THEN "eof" ELSE "short"]
               /\ UNCHANGED nframes
          ELSE IF ~HeadConsistent(h)
          THEN /\ pc' = [pc EXCEPT ![s] = "Closed"]
               /\ cause' = [cause EXCEPT ![s] = "framing"]
               /\ UNCHANGED nframes
          ELSE /\ pc' = [pc EXCEPT ![s] = "ReadBody"]
               /\ nframes' = [nframes EXCEPT ![s] = @ + 1]
               /\ UNCHANGED cause
  /\ UNCHANGED <<py, peer, rx_body, exp_status, tx_body, dbop, nsent, bits_lock,
                 words_lock, bits, words, prev_body, prev_op>>

\* lines 110-218 up to the DataBank call
RecvBody(s) ==
  /\ pc[s] = "ReadBody"
  /\ \E body \in BodyInputs(peer[s], s, nframes[s], rx_head[s]) :
       /\ rx_body' = [rx_body EXCEPT ![s] = body]
       /\ IF BodyShort(rx_head[s], body)
          THEN /\ pc' = [pc EXCEPT ![s] = "Closed"]
               /\ cause' = [cause EXCEPT ![s] = IF body = <<>> THEN "eof" ELSE "short"]
               /\ UNCHANGED <<exp_status, tx_body, dbop>>
          ELSE IF FcInconsistent(body)
          THEN /\ pc' = [pc EXCEPT ![s] = "Closed"]
               /\ cause' = [cause EXCEPT ![s] = "framing"]
               /\ UNCHANGED <<exp_status, tx_body, dbop>>
          ELSE LET d == Dispatch(py, body) IN
               CASE d.kind = "raise" ->
                      /\ pc' = [pc EXCEPT ![s] = "Closed"]
                      /\ cause' = [cause EXCEPT ![s] = "exception"]
                      /\ UNCHANGED <<exp_status, tx_body, dbop>>
                 [] d.kind = "reply" ->
                      /\ pc' = [pc EXCEPT ![s] = "Reply"]
                      /\ exp_status' = [exp_status EXCEPT ![s] = d.exp]
                      /\ tx_body' = [tx_body EXCEPT ![s] = ExceptBody(body[1], d.exp)]
                      /\ UNCHANGED <<cause, dbop>>
                 [] OTHER ->
                      /\ pc' = [pc EXCEPT ![s] = "Lock"]
                      /\ dbop' = [dbop EXCEPT ![s] = d.op]
                      /\ UNCHANGED <<cause, exp_status, tx_body>>
  /\ UNCHANGED <<py, peer, rx_head, nframes, nsent, bits_lock, words_lock,
                 bits, words, prev_body, prev_op>>

\* an application thread calls a DataBank class method
AppCall(s) ==
  /\ pc[s] = "App"
  /\ nframes[s] < MaxFrames
  /\ \E name \in AppNames, a \in AppAddresses :
       \E l \in AppLists(name), n \in AppNumbers(name) :
         dbop' = [dbop EXCEPT ![s] = Call(name, a, IF IsGet([name |-> name]) THEN n ELSE Len(l), l)]
  /\ prev_op' = [prev_op EXCEPT ![s] = dbop[s]]
  /\ nframes' = [nframes EXCEPT ![s] = @ + 1]
  /\ pc' = [pc EXCEPT ![s] = "Lock"]
  /\ UNCHANGED <<py, peer, rx_head, rx_body, exp_status, tx_body, nsent,
                 cause, bits_lock, words_lock, bits, words, prev_body>>

\* `with cls.bits_lock:` / `with cls.words_lock:` entered
Acquire(s) ==
  /\ pc[s] = "Lock"
  /\ IF OnBits(dbop[s])
     THEN /\ CanAcquire(bits_lock)
          /\ bits_lock' = s
          /\ UNCHANGED words_lock
     ELSE /\ CanAcquire(words_lock)
          /\ words_lock' = s
          /\ UNCHANGED bits_lock
  /\ pc' = [pc EXCEPT ![s] = "Locked"]
  /\ UNCHANGED <<py, peer, rx_head, rx_body, exp_status, tx_body, nframes,
                 nsent, cause, dbop, bits, words, prev_body, prev_op>>

\* the range test and the slice copy, inside the with block
Copy(s) ==
  /\ pc[s] = "Locked"
  /\ dbop[s].ret = "pending"
  /\ LET r == DbStep(dbop[s], bits, words) IN
       /\ dbop' = [dbop EXCEPT ![s] = r.op]
       /\ bits' = r.bits
       /\ words' = r.words
  /\ UNCHANGED <<py, peer, pc, rx_head, rx_body, exp_status, tx_body,
                 nframes, nsent, cause, bits_lock, words_lock, prev_body,
                 prev_op>>

\* the with block left (the lock released), then the handler up to line 222
Release(s) ==
  /\ pc[s] = "Locked"
  /\ dbop[s].ret # "pending"
  /\ IF OnBits(dbop[s])
     THEN bits_lock' = LockAfter(dbop[s], s) /\ UNCHANGED words_lock
     ELSE words_lock' = LockAfter(dbop[s], s) /\ UNCHANGED bits_lock
  /\ IF peer[s] = "app"
     THEN /\ pc' = [pc EXCEPT ![s] = "App"]
          /\ UNCHANGED <<exp_status, tx_body>>
     ELSE /\ pc' = [pc EXCEPT ![s] = "Reply"]
          /\ exp_status' = [exp_status EXCEPT ![s] = ExpAfterCall(dbop[s])]
          /\ tx_body' = [tx_body EXCEPT ![s] = TxBody(rx_body[s], dbop[s])]
  /\ UNCHANGED <<py, peer, rx_head, rx_body, nframes, nsent, cause, dbop,
                 bits, words, prev_body, prev_op>>

IsWriteFc(fc) ==
  fc \in {WRITE_SINGLE_COIL, WRITE_SINGLE_REGISTER, WRITE_MULTIPLE_COILS,
          WRITE_MULTIPLE_REGISTERS}

\* tx_head + tx_body: the frame passed to send() at line 226
TxFrame(s) == TxHead(rx_head[s], tx_body[s]) \o tx_body[s]

\* lines 224-226: the header built, TxFrame(s) sent, back to recv(7); the
\* locals of the frame are dead from here on
Reply(s) ==
  /\ pc[s] = "Reply"
  /\ nsent' = [nsent EXCEPT ![s] = @ + 1]
  /\ pc' = [pc EXCEPT ![s] = "ReadHeader"]
  /\ rx_head' = [rx_head EXCEPT ![s] = <<>>]
  /\ rx_body' = [rx_body EXCEPT ![s] = <<>>]
  /\ exp_status' = [exp_status EXCEPT ![s] = EXP_NONE]
  /\ tx_body' = [tx_body EXCEPT ![s] = <<>>]
  /\ dbop' = [dbop EXCEPT ![s] = NoOp]
  /\ prev_body' = [prev_body EXCEPT ![s] =
                     IF peer[s] = "fuzz" /\ exp_status[s] = EXP_NONE
                        /\ IsWriteFc(rx_body[s][1])
                     THEN rx_body[s] ELSE <<>>]
  /\ UNCHANGED <<py, peer, nframes, cause, bits_lock, words_lock, bits, words,
                 prev_op>>

\* recv() or send() raises (socket error): the exception ends the handler
IOError(s) ==
  /\ pc[s] \in {"ReadHeader", "ReadBody", "Reply"}
  /\ pc' = [pc EXCEPT ![s] = "Closed"]
  /\ cause' = [cause EXCEPT ![s] = "ioerror"]
  /\ rx_head' = [rx_head EXCEPT ![s] = <<>>]
  /\ rx_body' = [rx_body EXCEPT ![s] = <<>>]
  /\ exp_status' = [exp_status EXCEPT ![s] = EXP_NONE]
  /\ tx_body' = [tx_body EXCEPT ![s] = <<>>]
  /\ dbop' = [dbop EXCEPT ![s] = NoOp]
  /\ UNCHANGED <<py, peer, nframes, nsent, bits_lock, words_lock, bits, words,
                 prev_body, prev_op>>

NextConc ==
  \E s \in Sessions :
    \/ RecvHeader(s)
    \/ RecvBody(s)
    \/ Acquire(s)
    \/ Copy(s)
    \/ Release(s)
    \/ Reply(s)
    \/ IOError(s)

Next ==
  \E s \in Sessions :
    \/ RecvHeader(s)
    \/ RecvBody(s)
    \/ Acquire(s)
    \/ Copy(s)
    \/ Release(s)
    \/ Reply(s)
    \/ IOError(s)
    \/ AppCall(s)

Spec == Init /\ [][Next]_vars

SpecConc == InitConc /\ [][NextConc]_vars

SpecLock == InitLock /\ [][NextConc]_vars

\* ------------------------------------------------------------------ claims
Connected(s) == peer[s] \in {"fuzz", "client", "writer", "prober"}

\* the handler of s holds a whole PDU (recv returned rx_hd_length - 1 bytes)
HasPdu(s) ==
  /\ Connected(s)
  /\ Len(rx_head[s]) = 7
  /\ rx_body[s] # <<>>
  /\ Len(rx_body[s]) = rx_head[s][5] * 256 + rx_head[s][6] - 1

\* C1: a session reaches Closed only on clean EOF, short read, framing
\* violation or I/O error, whatever the function code and the content of a
\* body of the permitted length.
C1_ClosedOnlyOnFramingOrIo ==
  \A s \in Sessions :
    pc[s] = "Closed" => cause[s] \in {"eof", "short", "framing", "ioerror"}

\* thread s makes a recv step: it leaves the state st otherwise than by a
\* socket error
RecvStep(s, st) == pc[s] = st /\ pc'[s] # st /\ cause'[s] # "ioerror"

\* C2: on a framing error (header of fewer than 7 bytes or EOF, pr_id # 0,
\* length <= 2 or >= 256, body of fewer than length-1 bytes, function code
\* > 0x7F) the session goes to Closed, sends nothing for that frame and
\* both spaces are unchanged.
C2_FramingErrorClosesSilently ==
  [][\A s \in Sessions :
       LET h == rx_head'[s]
           b == rx_body'[s]
           badHead == \/ Len(h) < 7
                      \/ h[3] * 256 + h[4] # 0
                      \/ h[5] * 256 + h[6] <= 2
                      \/ h[5] * 256 + h[6] >= 256
           badBody == \/ Len(b) < h[5] * 256 + h[6] - 1
                      \/ b[1] > 127
       IN (\/ RecvStep(s, "ReadHeader") /\ badHead
           \/ RecvStep(s, "ReadBody") /\ badBody)
          => /\ pc'[s] = "Closed"
             /\ nsent'[s] = nsent[s]
             /\ tx_body'[s] = <<>>
             /\ dbop'[s] = NoOp
             /\ bits' = bits
             /\ words' = words]_vars

\* a session that served a write is closed on a function code > 0x7F
C2_Witness ==
  \E s \in Sessions :
    /\ pc[s] = "Closed" /\ cause[s] = "framing"
    /\ rx_body[s] # <<>> /\ rx_body[s][1] > 127
    /\ nsent[s] = 1
    /\ words # {}

\* the PDU has the layout of its function code in the request table
WellShaped(b) ==
  CASE b[1] \in 1..6 -> Len(b) = 5
    [] b[1] \in {15, 16} -> Len(b) >= 6 /\ Len(b) = 6 + b[6]
    [] OTHER -> TRUE

\* the exception code the dispatcher table gives a well-shaped PDU (0: none)
TableCode(b) ==
  LET fc == b[1]
      addr == b[2] * 256 + b[3]
      count == b[4] * 256 + b[5]
  IN CASE fc \in {1, 2} ->
            IF count < 1 \/ count > 2000 THEN 3
            ELSE IF addr + count > 65536 THEN 2 ELSE 0
       [] fc \in {3, 4} ->
            IF count < 1 \/ count > 125 THEN 3
            ELSE IF addr + count > 65536 THEN 2 ELSE 0
       [] fc \in {5, 6} -> 0
       [] fc = 15 ->
            IF count < 1 \/ count > 1968 \/ b[6] * 8 < count THEN 3
            ELSE IF addr + count > 65536 THEN 2 ELSE 0
       [] fc = 16 ->
            IF count < 1 \/ count > 123 \/ b[6] # count * 2 THEN 3
            ELSE IF addr + count > 65536 THEN 2 ELSE 0
       [] OTHER -> 1

\* C3: a protocol error (unknown function code, out-of-range quantity,
\* address range overflow, byte_count mismatch) is answered with an exception
\* PDU and the session stays open.
C3_ProtocolErrorAnswered ==
  \A s \in Sessions :
    (HasPdu(s) /\ rx_body[s][1] <= 127 /\ WellShaped(rx_body[s])
       /\ TableCode(rx_body[s]) # 0)
    => /\ pc[s] \in {"Lock", "Locked", "Reply"}
       /\ pc[s] = "Reply" =>
            tx_body[s] = <<rx_body[s][1] + 128, TableCode(rx_body[s])>>

\* C4: every response frame carries the transaction id, protocol id and unit
\* id of the request it answers, and a length field equal to the number of
\* bytes of the response PDU plus 1.
C4_ResponseHeaderEchoes ==
  \A s \in Sessions :
    pc[s] = "Reply" =>
      LET f == TxFrame(s)
          h == rx_head[s]
      IN /\ Len(f) = 7 + Len(tx_body[s])
         /\ <<f[1], f[2]>> = <<h[1], h[2]>>
         /\ <<f[3], f[4]>> = <<h[3], h[4]>>
         /\ f[7] = h[7]
         /\ f[5] * 256 + f[6] = Len(tx_body[s]) + 1
         /\ SubSeq(f, 8, Len(f)) = tx_body[s]

\* a success response longer than an exception, to transaction id 0x0102
C4_Witness ==
  \E s \in Sessions :
    /\ pc[s] = "Reply"
    /\ rx_head[s][1] = 1 /\ rx_head[s][2] = 2
    /\ exp_status[s] = EXP_NONE
    /\ Len(tx_body[s]) > 2

\* C5: a session is strictly serial: the header of request i+1 is read only
\* after response i was sent, and the i-th response carries the transaction
\* id of the i-th request (the clients number their requests 1, 2, ...),
\* under every interleaving with the other connections.
C5_StrictlySerial ==
  \A s \in Sessions :
    /\ pc[s] = "ReadHeader" => nframes[s] = nsent[s]
    /\ pc[s] \in {"ReadBody", "Lock", "Locked", "Reply"} =>
         nframes[s] = nsent[s] + 1
    /\ nsent[s] <= nframes[s] /\ nframes[s] <= nsent[s] + 1
    /\ pc[s] = "Reply" =>
         TxFrame(s)[1] * 256 + TxFrame(s)[2] = nsent[s] + 1

\* two sessions are both about to send their second response
C5_Witness ==
  \E s, t \in Sessions :
    /\ s # t
    /\ pc[s] = "Reply" /\ nsent[s] = 1
    /\ pc[t] = "Reply" /\ nsent[t] = 1

\* C6: range operations are atomic on their space.  While a thread is
\* inside a get, the cells it has read still hold the values it read; while
\* it is inside a set, the cells it has written still hold the values it
\* wrote: the list returned is the range as it stands at one instant, and a
\* completed write is whole, under every interleaving of the sessions.
C6_RangeOpsAtomic ==
  \A s \in Sessions :
    (pc[s] = "Locked" /\ dbop[s].done > 0) =>
      LET op == dbop[s] IN
      \A k \in 1..op.done :
        CASE op.name = "get_bits" -> op.out[k] = ((op.address + k - 1) \in bits)
          [] op.name = "set_bits" -> op.arg[k] = ((op.address + k - 1) \in bits)
          [] op.name = "get_words" -> op.out[k] = WordAt(words, op.address + k - 1)
          [] OTHER -> op.arg[k] = WordAt(words, op.address + k - 1)

\* a session has read the first of two registers while another session
\* waits for the lock to write the same two registers
C6_Witness ==
  \E s, t \in Sessions :
    /\ s # t
    /\ pc[s] = "Locked" /\ dbop[s].name = "get_words"
    /\ dbop[s].done = 1 /\ dbop[s].number = 2
    /\ pc[t] = "Lock" /\ dbop[t].name = "set_words"
    /\ dbop[t].address = dbop[s].address /\ dbop[t].number = 2
    /\ words # {}

\* C7: once the k-th write-single-register request of a writer is answered,
\* the word space holds the value written at the address written, the
\* addresses of all the requests of all the writers being pairwise distinct:
\* no write is lost, under every interleaving.
C7_NoLostWrite ==
  \A s \in Sessions :
    peer[s] = "writer" =>
      \A k \in 1..nsent[s] : WordAt(words, WAddr(s, k)) = WVal(s, k)

\* every writer has had all its requests answered
C7_Witness ==
  \A s \in Sessions : peer[s] = "writer" /\ nsent[s] = MaxFrames

\* C8: for addr + n > 65536 or addr < 0, each of get_bits, set_bits,
\* get_words and set_words returns None (it does not raise) and leaves both
\* spaces as they were.
C8_OutOfRangeFails ==
  [][\A s \in Sessions :
       (pc[s] = "Locked" /\ dbop'[s] # dbop[s]
          /\ (dbop[s].address < 0 \/ dbop[s].address + dbop[s].number > 65536))
       => /\ pc'[s] = "Locked"
          /\ dbop'[s] = [dbop[s] EXCEPT !.ret = "None"]
          /\ bits' = bits
          /\ words' = words]_vars

\* set_words failed on a range ending beyond the last cell, in a state where
\* the word space holds a value written before
C8_Witness ==
  \E s \in Sessions :
    /\ dbop[s].name = "set_words" /\ dbop[s].ret = "None"
    /\ dbop[s].address = 65535 /\ dbop[s].number = 2
    /\ words # {}

\* C9: after a successful set_words(addr, seq) and no write in between,
\* get_words(addr, len(seq)) returns seq; a successful write of registers
\* followed by a read of the same registers answers the values written.
C9_WriteThenRead ==
  \A s \in Sessions :
    /\ (peer[s] = "app" /\ dbop[s].name = "get_words" /\ dbop[s].ret # "pending"
          /\ prev_op[s].name = "set_words" /\ prev_op[s].ret = "True"
          /\ prev_op[s].address = dbop[s].address
          /\ prev_op[s].number = dbop[s].number)
       => dbop[s].ret = "list" /\ dbop[s].out = prev_op[s].arg
    /\ (pc[s] = "Reply" /\ rx_body[s][1] = 3 /\ Len(rx_body[s]) = 5
          /\ prev_body[s] # <<>> /\ prev_body[s][1] \in {6, 16}
          /\ <<rx_body[s][2], rx_body[s][3]>> = <<prev_body[s][2], prev_body[s][3]>>
          /\ rx_body[s][4] * 256 + rx_body[s][5]
               = (IF prev_body[s][1] = 6 THEN 1
                  ELSE prev_body[s][4] * 256 + prev_body[s][5]))
       => tx_body[s] =
            IF prev_body[s][1] = 6
            THEN <<3, 2, prev_body[s][4], prev_body[s][5]>>
            ELSE <<3, prev_body[s][6]>> \o SubSeq(prev_body[s], 7, Len(prev_body[s]))

\* write single register 0x1234 at address 10 was answered, and the read of
\* holding register 10 is about to be answered
C9_Witness ==
  \E s \in Sessions :
    /\ pc[s] = "Reply"
    /\ rx_body[s] = <<3, 0, 10, 0, 1>>
    /\ prev_body[s] = <<6, 0, 10, 18, 52>>

\* the quantity of a well-shaped PDU is outside the range of its function code
QuantityOut(b) ==
  LET count == b[4] * 256 + b[5] IN
  CASE b[1] \in {1, 2} -> Len(b) = 5 /\ (count < 1 \/ count > 2000)
    [] b[1] \in {3, 4} -> Len(b) = 5 /\ (count < 1 \/ count > 125)
    [] b[1] = 15 -> Len(b) >= 6 /\ (count < 1 \/ count > 1968)
    [] b[1] = 16 -> Len(b) >= 6 /\ (count < 1 \/ count > 123)
    [] OTHER -> FALSE

\* C10: a request whose quantity is outside the allowed range is answered
\* with exception 0x03 whatever its address, also when the range exceeds
\* 65536, and no DataBank method is called for it.
C10_QuantityOutOfRange ==
  \A s \in Sessions :
    (HasPdu(s) /\ QuantityOut(rx_body[s]))
    => /\ pc[s] = "Reply"
       /\ exp_status[s] = 3
       /\ tx_body[s] = <<rx_body[s][1] + 128, 3>>
       /\ dbop[s] = NoOp

\* write multiple coils of 1969 coils at address 65535 is about to be
\* answered, after a write that changed the word space
C10_Witness ==
  \E s \in Sessions :
    /\ pc[s] = "Reply"
    /\ rx_body[s][1] = 15
    /\ rx_body[s][2] = 255 /\ rx_body[s][3] = 255
    /\ rx_body[s][4] * 256 + rx_body[s][5] = 1969
    /\ words # {}

\* the byte_count of a write-multiple PDU is inconsistent with its count
ByteCountBad(b) ==
  LET count == b[4] * 256 + b[5] IN
  CASE b[1] = 15 -> Len(b) >= 6 /\ count >= 1 /\ count <= 1968 /\ b[6] * 8 < count
    [] b[1] = 16 -> Len(b) >= 6 /\ b[6] # count * 2
    [] OTHER -> FALSE

\* C11: a write-multiple request whose byte_count is inconsistent with its
\* count (FC 0x0F: byte_count < ceil(count/8), for every count in 1..1968;
\* FC 0x10: byte_count # count*2) is answered with exception 0x03 and no
\* DataBank method is called for it, so nothing is written.
C11_ByteCountMismatch ==
  \A s \in Sessions :
    (HasPdu(s) /\ ByteCountBad(rx_body[s]))
    => /\ pc[s] = "Reply"
       /\ tx_body[s] = <<rx_body[s][1] + 128, 3>>
       /\ dbop[s] = NoOp

\* h and b are a header and the whole PDU it announces, of a connection
WholePdu(s, h, b) ==
  /\ Connected(s)
  /\ Len(h) = 7
  /\ b # <<>>
  /\ Len(b) = h[5] * 256 + h[6] - 1

\* C12: a request of one of the eight function codes with a valid quantity
\* and byte_count whose range exceeds 65536 is answered with exception 0x02
\* and no step of its handling changes a space; a request whose range fits,
\* also when it ends exactly at 65536, is answered with success, so that the
\* single writes (0x05, 0x06) never yield 0x02.
C12_AddressOverflow ==
  [][\A s \in Sessions :
       LET b == rx_body'[s] IN
       (WholePdu(s, rx_head'[s], b) /\ b[1] <= 127 /\ WellShaped(b)
          /\ b[1] \in {1, 2, 3, 4, 5, 6, 15, 16} /\ TableCode(b) \in {0, 2})
       => /\ pc'[s] \in {"Lock", "Locked", "Reply"}
          /\ TableCode(b) = 2 =>
               /\ bits' = bits /\ words' = words
               /\ pc'[s] = "Reply" => tx_body'[s] = <<b[1] + 128, 2>>
          /\ (TableCode(b) = 0 /\ pc'[s] = "Reply") =>
               /\ tx_body'[s][1] = b[1]
               /\ exp_status'[s] = 0]_vars

\* write multiple registers of 2 registers at 65535 is about to be answered
\* with exception 0x02, after the write of register 65535 alone succeeded
C12_Witness ==
  \E s \in Sessions :
    /\ pc[s] = "Reply"
    /\ rx_body[s] = <<16, 255, 255, 0, 2, 4, 0, 1, 0, 2>>
    /\ tx_body[s] = <<144, 2>>
    /\ prev_body[s] = <<16, 255, 255, 0, 1, 2, 171, 205>>
    /\ words = {<<65535, 43981>>}

\* C13: a function code <= 0x7F outside 0x01-0x06, 0x0F, 0x10 is answered
\* with exception 0x01 whatever the rest of the PDU; every exception response
\* PDU is two bytes, the request function code with bit 7 set and the
\* exception code, and the code is 0x01, 0x02 or 0x03.
C13_IllegalFunction ==
  \A s \in Sessions :
    /\ (HasPdu(s) /\ rx_body[s][1] <= 127
          /\ rx_body[s][1] \notin {1, 2, 3, 4, 5, 6, 15, 16})
       => /\ pc[s] = "Reply"
          /\ tx_body[s] = <<rx_body[s][1] + 128, 1>>
    /\ (pc[s] = "Reply" /\ (exp_status[s] # 0 \/ tx_body[s][1] > 127))
       => /\ Len(tx_body[s]) = 2
          /\ tx_body[s][1] = rx_body[s][1] + 128
          /\ tx_body[s][2] = exp_status[s]
          /\ tx_body[s][2] \in {1, 2, 3}

\* function code 0x7F with a 3-byte rest is about to be answered FF 01, as
\* the second frame of its session
C13_Witness ==
  \E s \in Sessions :
    /\ pc[s] = "Reply"
    /\ rx_body[s] = <<127, 1, 2, 3>>
    /\ tx_body[s] = <<255, 1>>
    /\ nsent[s] = 1

\* C14: write single coil accepts every 16-bit value: once the DataBank call
\* has returned, the addressed bit is true if and only if the value is
\* 0xFF00, and the response is the request PDU itself (function code,
\* address and value echoed), never an exception.
C14_WriteSingleCoil ==
  \A s \in Sessions :
    (HasPdu(s) /\ rx_body[s][1] = 5 /\ Len(rx_body[s]) = 5)
    => /\ pc[s] \in {"Lock", "Locked", "Reply"}
       /\ pc[s] = "Reply" =>
            /\ tx_body[s] = rx_body[s]
            /\ exp_status[s] = 0
            /\ ((rx_body[s][2] * 256 + rx_body[s][3]) \in bits)
                 <=> (rx_body[s][4] = 255 /\ rx_body[s][5] = 0)

\* coil 7, set by a write of 0xFF00, has been cleared by a write of 0x00FF
C14_Witness ==
  \E s \in Sessions :
    /\ pc[s] = "Reply"
    /\ rx_body[s] = <<5, 0, 7, 0, 255>>
    /\ prev_body[s] = <<5, 0, 7, 255, 0>>
    /\ 7 \notin bits

\* the handler of s is about to answer read coils of 3 coils at address 0,
\* transaction id 1, unit id 0xFF, coils 0..2 being false
ReadThreeCoils(s) ==
  /\ pc[s] = "Reply"
  /\ rx_head[s] = <<0, 1, 0, 0, 0, 6, 255>>
  /\ rx_body[s] = <<1, 0, 0, 0, 3>>
  /\ bits \cap {0, 1, 2} = {}

\* C15 as stated: read coils of 3 coils at address 0 while coils 0..2 are
\* false (as after initialisation), with transaction id 1 and unit id 0xFF,
\* is answered with exactly the bytes 00 01 00 00 00 05 FF 01 01 00.
C15_ReadThreeCoilsExample ==
  \A s \in Sessions :
    ReadThreeCoils(s) => TxFrame(s) = <<0, 1, 0, 0, 0, 5, 255, 1, 1, 0>>

\* C15 amended: that request is answered with exactly the bytes
\* 00 01 00 00 00 04 FF 01 01 00: the length field is 4, the unit id and the
\* three bytes of the response PDU 01 01 00.
C15_ReadThreeCoilsLengthFour ==
  \A s \in Sessions :
    ReadThreeCoils(s) => TxFrame(s) = <<0, 1, 0, 0, 0, 4, 255, 1, 1, 0>>

\* that request is about to be answered as the first frame of the first
\* connection, both spaces being as initialised
C15_Witness ==
  \E s \in Sessions :
    /\ pc[s] = "Reply"
    /\ rx_head[s] = <<0, 1, 0, 0, 0, 6, 255>>
    /\ rx_body[s] = <<1, 0, 0, 0, 3>>
    /\ nframes[s] = 1
    /\ bits = {} /\ words = {}

\* bit k (0 = least significant) of the byte x
BitOf(x, k) == ((x \div (2 ^ k)) % 2) = 1

\* number of bytes holding count bits
CeilDiv8(count) == (count + 7) \div 8

\* C16: bit packing round trip.  Read coils answered right after a
\* successful write multiple coils of the same (addr, count), whose
\* byte_count was ceil(count/8) and whose unused trailing bits were zero,
\* returns byte count ceil(count/8) and the data bytes written.  In both
\* directions bit i of the range is bit (i mod 8) of data byte floor(i/8),
\* and the unused high bits of the last response byte are zero.
C16_BitPackingRoundTrip ==
  \A s \in Sessions :
    LET b == rx_body[s]
        p == prev_body[s]
        t == tx_body[s]
        addr == b[2] * 256 + b[3]
        count == b[4] * 256 + b[5]
    IN
    /\ (pc[s] = "Reply" /\ HasPdu(s) /\ b[1] = 1 /\ Len(b) = 5
          /\ p # <<>> /\ p[1] = 15
          /\ <<p[2], p[3], p[4], p[5]>> = <<b[2], b[3], b[4], b[5]>>
          /\ p[6] = CeilDiv8(count) /\ Len(p) = 6 + p[6]
          /\ (count % 8 # 0 => p[Len(p)] < 2 ^ (count % 8)))
       => t = <<1, p[6]>> \o SubSeq(p, 7, Len(p))
    /\ (pc[s] = "Reply" /\ HasPdu(s) /\ b[1] = 1 /\ Len(b) = 5 /\ t[1] = 1)
       => /\ t[2] = CeilDiv8(count)
          /\ Len(t) = 2 + t[2]
          /\ \A i \in 0..(count - 1) :
               BitOf(t[3 + (i \div 8)], i % 8) <=> ((addr + i) \in bits)
          /\ count % 8 # 0 => t[Len(t)] < 2 ^ (count % 8)
    /\ (pc[s] = "Reply" /\ HasPdu(s) /\ b[1] = 15 /\ Len(b) >= 6 /\ t[1] = 15
          /\ Len(b) = 6 + b[6] /\ b[6] = CeilDiv8(count))
       => \A i \in 0..(count - 1) :
            BitOf(b[7 + (i \div 8)], i % 8) <=> ((addr + i) \in bits)

\* 9 coils written from the bytes FF 01 are about to be read back
C16_Witness ==
  \E s \in Sessions :
    /\ pc[s] = "Reply"
    /\ rx_body[s] = <<1, 0, 0, 0, 9>>
    /\ prev_body[s] = <<15, 0, 0, 0, 9, 2, 255, 1>>
    /\ tx_body[s] = <<1, 2, 255, 1>>

\* t is the success response to a read of count bits at addr by function
\* code fc: apart from its first byte it is determined by the bit space
BitsResponse(t, fc, addr, count) ==
  /\ t[1] = fc
  /\ t[2] = CeilDiv8(count)
  /\ Len(t) = 2 + t[2]
  /\ \A i \in 0..(8 * t[2] - 1) :
       BitOf(t[3 + (i \div 8)], i % 8) <=> (i < count /\ (addr + i) \in bits)

\* the same for a read of count words: determined by the word space
WordsResponse(t, fc, addr, count) ==
  /\ t[1] = fc
  /\ t[2] = 2 * count
  /\ Len(t) = 2 + 2 * count
  /\ \A i \in 0..(count - 1) :
       /\ t[3 + 2 * i] * 256 + t[4 + 2 * i] = WordAt(words, addr + i)
       /\ t[4 + 2 * i] < 256

\* C17: aliasing.  The response to FC 0x02 is the function of (addr, count)
\* and of the bit space that the response to FC 0x01 is, and the response to
\* FC 0x04 the function of the word space that the response to FC 0x03 is,
\* the function-code byte apart, exceptions included; a coil written by
\* 0x05 / 0x0F is read back by read discrete inputs and a register written by
\* 0x06 / 0x10 by read input registers.
C17_Aliasing ==
  \A s \in Sessions :
    LET b == rx_body[s]
        p == prev_body[s]
        t == tx_body[s]
        addr == b[2] * 256 + b[3]
        count == b[4] * 256 + b[5]
        sameRange == /\ p # <<>>
                     /\ <<p[2], p[3]>> = <<b[2], b[3]>>
    IN
    (pc[s] = "Reply" /\ HasPdu(s) /\ Len(b) = 5 /\ b[1] \in {1, 2, 3, 4})
    => /\ b[1] \in {1, 2} =>
            IF count < 1 \/ count > 2000 THEN t = <<b[1] + 128, 3>>
            ELSE IF addr + count > 65536 THEN t = <<b[1] + 128, 2>>
            ELSE BitsResponse(t, b[1], addr, count)
       /\ b[1] \in {3, 4} =>
            IF count < 1 \/ count > 125 THEN t = <<b[1] + 128, 3>>
            ELSE IF addr + count > 65536 THEN t = <<b[1] + 128, 2>>
            ELSE WordsResponse(t, b[1], addr, count)
       /\ (b[1] = 2 /\ sameRange /\ p[1] = 5 /\ count = 1)
          => t = <<2, 1, IF p[4] = 255 /\ p[5] = 0 THEN 1 ELSE 0>>
       /\ (b[1] = 2 /\ sameRange /\ p[1] = 15 /\ <<p[4], p[5]>> = <<b[4], b[5]>>)
          => \A i \in 0..(count - 1) :
               BitOf(t[3 + (i \div 8)], i % 8) <=> BitOf(p[7 + (i \div 8)], i % 8)
       /\ (b[1] = 4 /\ sameRange /\ p[1] = 6 /\ count = 1)
          => t = <<4, 2, p[4], p[5]>>
       /\ (b[1] = 4 /\ sameRange /\ p[1] = 16 /\ <<p[4], p[5]>> = <<b[4], b[5]>>)
          => t = <<4, p[6]>> \o SubSeq(p, 7, Len(p))

\* coil 7, set by write single coil, is about to be read back through read
\* discrete inputs
C17_Witness ==
  \E s \in Sessions :
    /\ pc[s] = "Reply"
    /\ rx_body[s] = <<2, 0, 7, 0, 1>>
    /\ prev_body[s] = <<5, 0, 7, 255, 0>>
    /\ tx_body[s] = <<2, 1, 1>>

\* the lock of the space of the DataBank call of thread s
LockOf(s) ==
  IF dbop[s].name \in {"get_bits", "set_bits"} THEN bits_lock ELSE words_lock

\* C18: lock discipline.  A thread holds a lock only inside the DataBank
\* method it is running, and then the lock of that method's space alone: the
\* lock is released when the method has returned, by success or by the
\* address failure, so that no lock is held while the handler is in recv() or
\* send() or has ended, and never both locks by one thread.  A thread
\* waiting for a lock waits for a thread that is inside a method and can
\* always go on, so that no state is a deadlock on the locks.
C18_LockDiscipline ==
  /\ \A s \in Sessions :
       /\ pc[s] # "Locked" => (bits_lock # s /\ words_lock # s)
       /\ ~(bits_lock = s /\ words_lock = s)
       /\ pc[s] = "Locked" =>
            /\ LockOf(s) = s
            /\ dbop[s].name \in {"get_bits", "set_bits", "get_words", "set_words"}
       /\ pc[s] = "Lock" =>
            \/ LockOf(s) = 0
            \/ LockOf(s) \in Sessions \ {s} /\ pc[LockOf(s)] = "Locked"
  /\ bits_lock \in {0} \cup Sessions
  /\ words_lock \in {0} \cup Sessions
  /\ (\E s \in Sessions : pc[s] \in {"Lock", "Locked"})
       => ENABLED (\E t \in Sessions : Acquire(t) \/ Copy(t) \/ Release(t))

\* a handler is about to answer exception 0x02 as its second response,
\* get_words having failed, while another handler is inside set_words and
\* holds the word lock
C18_Witness ==
  \E s, t \in Sessions :
    /\ s # t
    /\ pc[s] = "Reply" /\ tx_body[s] = <<131, 2>>
    /\ pc[t] = "Locked" /\ words_lock = t /\ dbop[t].name = "set_words"
    /\ nsent[s] = 1

\* C19: frame effect of requests.  Only a step inside a DataBank method
\* changes a space, and it advances the copy; a request answered with an
\* exception has copied nothing, and the steps of a read change nothing; the
\* steps of a coil write (0x05, 0x0F) leave the word space and every bit
\* outside [addr, addr+count) as they were; the steps of a register write
\* (0x06, 0x10) leave the bit space and every word outside [addr, addr+count)
\* as they were.
C19_FrameEffect ==
  [][\A s \in Sessions :
       LET b == rx_body[s]
           addr == b[2] * 256 + b[3]
           count == IF b[1] \in {5, 6} THEN 1 ELSE b[4] * 256 + b[5]
           range == addr..(addr + count - 1)
       IN
       (Connected(s) /\ (pc'[s] # pc[s] \/ dbop'[s] # dbop[s]))
       => /\ pc[s] # "Locked" => (bits' = bits /\ words' = words)
          /\ (bits' # bits \/ words' # words) => dbop'[s].done > dbop[s].done
          /\ pc[s] = "Locked" =>
               /\ b[1] \in {1, 2, 3, 4, 5, 6, 15, 16}
               /\ b[1] \in {1, 2, 3, 4} => (bits' = bits /\ words' = words)
               /\ b[1] \in {5, 15} =>
                    /\ words' = words
                    /\ bits' \ range = bits \ range
               /\ b[1] \in {6, 16} =>
                    /\ bits' = bits
                    /\ {w \in words' : w[1] \notin range}
                         = {w \in words : w[1] \notin range}
               /\ (pc'[s] = "Reply" /\ tx_body'[s][1] > 127) =>
                    /\ dbop[s].done = 0
                    /\ bits' = bits /\ words' = words]_vars

\* write multiple coils of 3 coils from the byte 05 is about to be answered
\* with success, the word space holding a register written before
C19_Witness ==
  \E s \in Sessions :
    /\ pc[s] = "Reply"
    /\ rx_body[s] = <<15, 0, 0, 0, 3, 1, 5>>
    /\ tx_body[s] = <<15, 0, 0, 0, 3>>
    /\ bits = {0, 2}
    /\ words # {}

\* C20: every frame passed to send() is a well-formed MBAP frame: bytes all,
\* a length field equal to the number of bytes after it, more than 2 and at
\* most 253; in a read response the byte-count field is the number of data
\* bytes that follow it, at most 250, for every accepted count (up to 2000
\* coils, 125 registers).
C20_ResponsesWellFormed ==
  \A s \in Sessions :
    pc[s] = "Reply" =>
      LET f == TxFrame(s)
          length == f[5] * 256 + f[6]
      IN /\ \A i \in 1..Len(f) : f[i] \in 0..255
         /\ Len(f) = 6 + length
         /\ 2 < length /\ length <= 253
         /\ f[3] = 0 /\ f[4] = 0
         /\ f[8] <= 255
         /\ f[8] \in {1, 2, 3, 4} =>
              /\ f[9] = Len(f) - 9
              /\ f[9] <= 250
              /\ f[9] >= 1

\* the 250 data bytes of 2000 coils are about to be sent, in a frame of
\* length field 253
C20_Witness ==
  \E s \in Sessions :
    /\ pc[s] = "Reply"
    /\ rx_body[s] = <<1, 0, 0, 7, 208>>
    /\ Len(tx_body[s]) = 252
    /\ TxFrame(s)[6] = 253

====
